---- MODULE Spec2Model ----
(***************************************************************************)
(* The ezviz_cloud integration: the polling coordinator                    *)
(* (coordinator.py) and the camera platform and entity (camera.py).        *)
(*                                                                         *)
(* Python values are modelled as follows.  An optional value (str | None)  *)
(* is a sequence of length at most one: << >> is None, <<v>> is v.  A      *)
(* value that is an int on one path and a str on another is a record       *)
(* [t |-> "int" | "str", v |-> ...] and str() of it is PyStr.  An          *)
(* exception is a record [type, msg, cause]; cause is the type of the      *)
(* exception given after "from", or "none".                                *)
(***************************************************************************)
EXTENDS Integers, Sequences, FiniteSets, TLC

VARIABLES
    cfg,          \* hass.config_entries.async_entries(DOMAIN), by unique_id
    data,         \* coordinator.data: the published snapshot
    seen,         \* history: the serials of every snapshot published so far
    inflight,     \* the calls of _async_update_data awaiting their executor job:
                  \* for each, the number of load_cameras jobs it has submitted
    lastRefresh,  \* what the last finished _async_update_data was given and did
    setupDone,    \* async_setup_entry of the camera platform has run
    entities,     \* the EzvizCamera objects, by serial
    discovered,   \* serials a discovery flow was started for
    lastCall      \* the last entity method that ran: its vendor calls and its result

vars == <<cfg, data, seen, inflight, lastRefresh, setupDone, entities,
          discovered, lastCall>>

---------------------------------------------------------------------------
(* Bounds of the model *)

MaxInFlight == 2
MaxSpeed == 2

Serials == {"DEV1", "DEV2"}
IPs == {"10.0.0.5", "10.0.0.6"}
Ports == {0, 8554}

---------------------------------------------------------------------------
(* const.py and the constants of the host the code names *)

DEFAULT_CAMERA_USERNAME == "admin"
DEFAULT_RTSP_PORT == "554"
DEFAULT_FFMPEG_ARGUMENTS == ""
SOURCE_IGNORE == "ignore"
SUPPORT_STREAM == 2
DIR_UP == <<"u", "p">>
DIR_DOWN == <<"d", "o", "w", "n">>
DIR_LEFT == <<"l", "e", "f", "t">>
DIR_RIGHT == <<"r", "i", "g", "h", "t">>

None == << >>
Some(v) == <<v>>

---------------------------------------------------------------------------
(* Python's str() of an int, and of a value that is an int or a str *)

Digit(d) ==
    CASE d = 0 -> "0" [] d = 1 -> "1" [] d = 2 -> "2" [] d = 3 -> "3"
      [] d = 4 -> "4" [] d = 5 -> "5" [] d = 6 -> "6" [] d = 7 -> "7"
      [] d = 8 -> "8" [] d = 9 -> "9"

RECURSIVE IntToStr(_)
IntToStr(n) == IF n < 10 THEN Digit(n) ELSE IntToStr(n \div 10) \o Digit(n % 10)

PyInt(n) == [t |-> "int", v |-> n]
PyStrVal(s) == [t |-> "str", v |-> s]
PyStr(x) == IF x.t = "int" THEN IntToStr(x.v) ELSE x.v

(* str.upper() on the letters the directions are spelled with *)
UpperChar(c) ==
    CASE c = "u" -> "U" [] c = "p" -> "P" [] c = "d" -> "D" [] c = "o" -> "O"
      [] c = "w" -> "W" [] c = "n" -> "N" [] c = "l" -> "L" [] c = "e" -> "E"
      [] c = "f" -> "F" [] c = "t" -> "T" [] c = "r" -> "R" [] c = "i" -> "I"
      [] c = "g" -> "G" [] c = "h" -> "H" [] OTHER -> c

RECURSIVE Join(_)
Join(cs) == IF cs = << >> THEN "" ELSE Head(cs) \o Join(Tail(cs))

Upper(cs) == Join([i \in 1..Len(cs) |-> UpperChar(cs[i])])

---------------------------------------------------------------------------
(* The vendor client's exceptions (pyezviz.exceptions).  Every class       *)
(* derives from PyEzvizError; an except clause catches a raised exception  *)
(* when one of the classes it lists is the exception's class or a base.    *)

VendorRaises ==
    {"EzvizAuthTokenExpired", "EzvizAuthVerificationCode", "InvalidURL",
     "HTTPError", "PyEzvizError"}

VendorClasses == VendorRaises \cup {"InvalidHost"}

VendorMsg(k) == "vendor:" \o k

Bases(k) == IF k \in VendorClasses THEN {k, "PyEzvizError"} ELSE {k}

Catches(classes, k) == Bases(k) \cap classes # {}

NoExc == [type |-> "none", msg |-> "", cause |-> "none"]
Exc(t, m, c) == [type |-> t, msg |-> m, cause |-> c]

(* What one call of a vendor method does: it returns ("ok") or raises. *)
VendorOutcomes == {"ok"} \cup VendorRaises

---------------------------------------------------------------------------
(* The snapshot: what load_cameras returns *)

DeviceStates ==
    [status : {1}, local_ip : IPs, local_rtsp_port : Ports,
     alarm_notify : {FALSE}, name : {"Front"}]

Snapshots == UNION {[S -> DeviceStates] : S \in SUBSET Serials}

(* What the executor job of one refresh ends with *)
LoadResults ==
    [kind : {"ok"}, value : Snapshots]
      \cup [kind : {"raise"}, exc : VendorRaises]
      \cup {[kind |-> "timeout"]}

---------------------------------------------------------------------------
(* coordinator.py *)

(* _async_update_data with its two except clauses in the other order *)
_async_update_data_swapped(r) ==
    CASE r.kind = "ok" -> [ret |-> Some(r.value), exc |-> NoExc]
      [] r.kind = "timeout" ->
            [ret |-> None, exc |-> Exc("TimeoutError", "", "none")]
      [] r.kind = "raise" ->
            IF Catches({"InvalidURL", "HTTPError", "PyEzvizError"}, r.exc)
            THEN [ret |-> None,
                  exc |-> Exc("UpdateFailed",
                              "Invalid response from API: " \o VendorMsg(r.exc),
                              r.exc)]
            ELSE IF Catches({"EzvizAuthTokenExpired", "EzvizAuthVerificationCode"}, r.exc)
            THEN [ret |-> None, exc |-> Exc("ConfigEntryAuthFailed", "", r.exc)]
            ELSE [ret |-> None, exc |-> Exc(r.exc, VendorMsg(r.exc), "none")]

(* _async_update_data, given what the awaited load ends with: the value it *)
(* returns or the exception that leaves it.                                *)
_async_update_data(r) ==
    CASE r.kind = "ok" -> [ret |-> Some(r.value), exc |-> NoExc]
      [] r.kind = "timeout" ->
            [ret |-> None, exc |-> Exc("TimeoutError", "", "none")]
      [] r.kind = "raise" ->
            IF Catches({"EzvizAuthTokenExpired", "EzvizAuthVerificationCode"}, r.exc)
            THEN [ret |-> None, exc |-> Exc("ConfigEntryAuthFailed", "", r.exc)]
            ELSE IF Catches({"InvalidURL", "HTTPError", "PyEzvizError"}, r.exc)
            THEN [ret |-> None,
                  exc |-> Exc("UpdateFailed",
                              "Invalid response from API: " \o VendorMsg(r.exc),
                              r.exc)]
            ELSE [ret |-> None, exc |-> Exc(r.exc, VendorMsg(r.exc), "none")]

ResultName(r) == IF r.kind = "raise" THEN r.exc ELSE r.kind

(* Publish updating the old map with the entries of the new one *)
Publish_merged(old, out) ==
    IF out.exc = NoExc
    THEN [s \in DOMAIN old \cup DOMAIN out.ret[1] |->
            IF s \in DOMAIN out.ret[1] THEN out.ret[1][s] ELSE old[s]]
    ELSE old

(* coordinator.data after a refresh that ended with out: the map returned  *)
(* replaces it whole; an exception leaves it as it was.                    *)
Publish(old, out) == IF out.exc = NoExc THEN out.ret[1] ELSE old

(* A refresh begins: _async_update_data enters the timeout block and       *)
(* submits one load_cameras job to the executor.  Nothing in the method    *)
(* keeps a second call from starting while one is awaiting; how many the   *)
(* host lets overlap is the host's matter, and MaxInFlight bounds it here. *)
RefreshStart ==
    /\ Len(inflight) < MaxInFlight
    /\ inflight' = Append(inflight, 1)
    /\ UNCHANGED <<cfg, data, seen, lastRefresh, setupDone, entities, discovered,
                   lastCall>>

(* A refresh in flight ends with r.  The refreshes in flight differ in     *)
(* nothing (what each ends with is decided here), so the first stands for  *)
(* any of them.                                                            *)
RefreshFinish(r) ==
    /\ inflight # << >>
    /\ LET out == _async_update_data(r) IN
        /\ lastRefresh' = [result |-> ResultName(r), out |-> out,
                           loads |-> Head(inflight)]
        /\ data' = Publish(data, out)
        /\ seen' = seen \cup DOMAIN Publish(data, out)
    /\ inflight' = Tail(inflight)
    /\ UNCHANGED <<cfg, setupDone, entities, discovered, lastCall>>

---------------------------------------------------------------------------
(* camera.py: async_setup_entry *)

(* The configuration entries a serial can have: none, an ignored one, or   *)
(* one holding the camera's credentials.  DEV1 is the camera the user has  *)
(* configured, DEV2 the one the user has not.                              *)
CameraEntries ==
    [source : {"user"}, username : {"admin"}, password : {"", "secret"},
     ffmpeg_arguments : {""}]

IgnoredEntries ==
    [source : {SOURCE_IGNORE}, username : {"admin"}, password : {""},
     ffmpeg_arguments : {""}]

Configs ==
    {c \in [Serials -> {None} \cup {Some(e) : e \in CameraEntries \cup IgnoredEntries}] :
        /\ c["DEV1"] # None /\ c["DEV1"][1] \in CameraEntries
        /\ c["DEV2"] = None \/ c["DEV2"][1] \in IgnoredEntries}

(* camera_rtsp_entry: the entries whose unique_id is the serial and whose  *)
(* source is not SOURCE_IGNORE.                                            *)
camera_rtsp_entry(c, serial) ==
    IF c[serial] # None /\ c[serial][1].source # SOURCE_IGNORE THEN c[serial] ELSE None

local_rtsp_port(value) ==
    IF value.local_rtsp_port # 0
    THEN PyInt(value.local_rtsp_port)
    ELSE PyStrVal(DEFAULT_RTSP_PORT)

RtspUrl(username, password, local_ip, port, ffmpeg_arguments) ==
    "rtsp://" \o username \o ":" \o password \o "@" \o local_ip \o ":"
        \o PyStr(port) \o ffmpeg_arguments

(* The EzvizCamera async_setup_entry builds for one entry of the snapshot *)
NewCamera(c, serial, value) ==
    LET entry == camera_rtsp_entry(c, serial)
        port == local_rtsp_port(value)
    IN  IF entry # None
        THEN [username |-> entry[1].username,
              password |-> Some(entry[1].password),
              rtsp_stream |-> RtspUrl(entry[1].username, entry[1].password,
                                      value.local_ip, port,
                                      entry[1].ffmpeg_arguments),
              local_rtsp_port |-> port,
              ffmpeg_arguments |-> entry[1].ffmpeg_arguments]
        ELSE [username |-> DEFAULT_CAMERA_USERNAME,
              password |-> None,
              rtsp_stream |-> "",
              local_rtsp_port |-> port,
              ffmpeg_arguments |-> DEFAULT_FFMPEG_ARGUMENTS]

(* camera_entities skipping the cameras that have no configuration entry *)
camera_entities_configured(c, d) ==
    [s \in {x \in DOMAIN d : camera_rtsp_entry(c, x) # None} |-> NewCamera(c, s, d[s])]

(* camera_entities: one EzvizCamera for each entry of coordinator.data *)
camera_entities(c, d) == [s \in DOMAIN d |-> NewCamera(c, s, d[s])]

NoCall == [op |-> "none", serial |-> "", args |-> << >>, calls |-> << >>,
           ret |-> None, exc |-> NoExc]

Setup ==
    /\ ~setupDone
    /\ setupDone' = TRUE
    /\ entities' = camera_entities(cfg, data)
    /\ discovered' = {s \in DOMAIN data : camera_rtsp_entry(cfg, s) = None}
    /\ UNCHANGED <<cfg, data, seen, inflight, lastRefresh, lastCall>>

---------------------------------------------------------------------------
(* camera.py: EzvizCamera, the properties and stream_source *)

(* EzvizEntity.data: the entity's entry of coordinator.data *)
EntityData(d, serial) ==
    IF serial \in DOMAIN d
    THEN [ret |-> Some(d[serial]), exc |-> NoExc]
    ELSE [ret |-> None, exc |-> Exc("KeyError", serial, "none")]

Truthy(password) == password # None /\ password[1] # ""

supported_features(self) == IF Truthy(self.password) THEN SUPPORT_STREAM ELSE 0

(* stream_source without its test of the password: None is formatted as   *)
(* str() formats it.                                                       *)
stream_source_unguarded(self, serial, d) ==
    LET value == EntityData(d, serial)
        pw == IF self.password = None THEN "None" ELSE self.password[1]
    IN  IF value.exc # NoExc
        THEN [ret |-> None, exc |-> value.exc, rtsp_stream |-> self.rtsp_stream]
        ELSE LET url == RtspUrl(self.username, pw, value.ret[1].local_ip,
                                self.local_rtsp_port, self.ffmpeg_arguments)
             IN [ret |-> Some(url), exc |-> NoExc, rtsp_stream |-> url]

(* stream_source: the value returned or the exception raised, and the      *)
(* entity's _rtsp_stream afterwards.                                       *)
stream_source(self, serial, d) ==
    IF self.password = None
    THEN [ret |-> None, exc |-> NoExc, rtsp_stream |-> self.rtsp_stream]
    ELSE LET value == EntityData(d, serial) IN
         IF value.exc # NoExc
         THEN [ret |-> None, exc |-> value.exc, rtsp_stream |-> self.rtsp_stream]
         ELSE LET url == RtspUrl(self.username, self.password[1],
                                 value.ret[1].local_ip, self.local_rtsp_port,
                                 self.ffmpeg_arguments)
              IN [ret |-> Some(url), exc |-> NoExc, rtsp_stream |-> url]

StreamSource(serial) ==
    /\ serial \in DOMAIN entities
    /\ LET r == stream_source(entities[serial], serial, data) IN
        /\ entities' = [entities EXCEPT ![serial].rtsp_stream = r.rtsp_stream]
        /\ lastCall' = [op |-> "stream_source", serial |-> serial, args |-> << >>,
                        calls |-> << >>, ret |-> r.ret, exc |-> r.exc]
    /\ UNCHANGED <<cfg, data, seen, inflight, lastRefresh, setupDone, discovered>>

SupportedFeatures(serial) ==
    /\ serial \in DOMAIN entities
    /\ lastCall' = [op |-> "supported_features", serial |-> serial, args |-> << >>,
                    calls |-> << >>,
                    ret |-> Some(supported_features(entities[serial])),
                    exc |-> NoExc]
    /\ UNCHANGED <<cfg, data, seen, inflight, lastRefresh, setupDone, entities,
                   discovered>>

---------------------------------------------------------------------------
(* The specification of polling, platform setup and the stream reads *)

NoRefresh == [result |-> "none", out |-> [ret |-> None, exc |-> NoExc], loads |-> 0]

Init ==
    /\ cfg \in Configs
    /\ data \in Snapshots
    /\ seen = DOMAIN data
    /\ inflight = << >>
    /\ lastRefresh = NoRefresh
    /\ setupDone = FALSE
    /\ entities = << >>
    /\ discovered = {}
    /\ lastCall = NoCall

Next ==
    \/ RefreshStart
    \/ \E r \in LoadResults : RefreshFinish(r)
    \/ Setup
    \/ \E s \in Serials : StreamSource(s)
    \/ \E s \in Serials : SupportedFeatures(s)

Spec == Init /\ [][Next]_vars

---------------------------------------------------------------------------
(* camera.py: EzvizCamera, the action methods.  Each operator gives the    *)
(* vendor calls the method makes, in order, each with what it ended with,  *)
(* and the exception that leaves the method (NoExc when it returns).       *)

MaxLevel == 2

Directions == {DIR_UP, DIR_DOWN, DIR_LEFT, DIR_RIGHT}
Speeds == 1..MaxSpeed
Levels == 1..MaxLevel
Enables == {0, 1}

VendorCall(method, args, outcome) ==
    [method |-> method, args |-> args, outcome |-> outcome]

(* try: <one vendor call ending with r>  except classes as err:            *)
(*     raise wrapType(msg) from err                                        *)
Handled(classes, wrapType, msg, r) ==
    IF r = "ok" THEN NoExc
    ELSE IF Catches(classes, r) THEN Exc(wrapType, msg, r)
    ELSE Exc(r, VendorMsg(r), "none")

enable_motion_detection(serial, r) ==
    [calls |-> <<VendorCall("set_camera_defence", <<serial, 1>>, r)>>,
     exc |-> Handled({"InvalidHost"}, "InvalidHost",
                     "Error enabling motion detection", r)]

disable_motion_detection(serial, r) ==
    [calls |-> <<VendorCall("set_camera_defence", <<serial, 0>>, r)>>,
     exc |-> Handled({"InvalidHost"}, "InvalidHost",
                     "Error disabling motion detection", r)]

(* perform_ptz passing the direction as it was given *)
perform_ptz_as_given(serial, direction, speed, r1, r2) ==
    LET start == VendorCall("ptz_control",
                            <<Join(direction), serial, "START", speed>>, r1)
        stop == VendorCall("ptz_control",
                           <<Join(direction), serial, "STOP", speed>>, r2)
    IN  IF r1 # "ok"
        THEN [calls |-> <<start>>,
              exc |-> Handled({"HTTPError"}, "HTTPError", "Cannot perform PTZ", r1)]
        ELSE [calls |-> <<start, stop>>,
              exc |-> Handled({"HTTPError"}, "HTTPError", "Cannot perform PTZ", r2)]

perform_ptz(serial, direction, speed, r1, r2) ==
    LET start == VendorCall("ptz_control",
                            <<Upper(direction), serial, "START", speed>>, r1)
        stop == VendorCall("ptz_control",
                           <<Upper(direction), serial, "STOP", speed>>, r2)
    IN  IF r1 # "ok"
        THEN [calls |-> <<start>>,
              exc |-> Handled({"HTTPError"}, "HTTPError", "Cannot perform PTZ", r1)]
        ELSE [calls |-> <<start, stop>>,
              exc |-> Handled({"HTTPError"}, "HTTPError", "Cannot perform PTZ", r2)]

perform_sound_alarm(serial, enable, r) ==
    [calls |-> <<VendorCall("sound_alarm", <<serial, enable>>, r)>>,
     exc |-> Handled({"HTTPError"}, "HTTPError", "Cannot sound alarm", r)]

perform_wake_device(serial, r) ==
    [calls |-> <<VendorCall("get_detection_sensibility", <<serial>>, r)>>,
     exc |-> Handled({"HTTPError", "PyEzvizError"}, "PyEzvizError",
                     "Cannot wake device", r)]

perform_alarm_sound(serial, level, r) ==
    [calls |-> <<VendorCall("alarm_sound", <<serial, level, 1>>, r)>>,
     exc |-> Handled({"HTTPError"}, "HTTPError",
                     "Cannot set alarm sound level for on movement detected", r)]

perform_set_alarm_detection_sensibility(serial, level, type_value, r) ==
    [calls |-> <<VendorCall("detection_sensibility", <<serial, level, type_value>>, r)>>,
     exc |-> Handled({"HTTPError", "PyEzvizError"}, "PyEzvizError",
                     "Cannot set detection sensitivity level", r)]

(* lastCall after an action method of the entity of serial ran to its end *)
Called(op, serial, args, done) ==
    [op |-> op, serial |-> serial, args |-> args, calls |-> done.calls,
     ret |-> None, exc |-> done.exc]

EnableMotionDetection(s) ==
    /\ s \in DOMAIN entities
    /\ \E r \in VendorOutcomes :
        lastCall' = Called("enable_motion_detection", s, << >>,
                           enable_motion_detection(s, r))
    /\ UNCHANGED <<cfg, data, seen, inflight, lastRefresh, setupDone, entities,
                   discovered>>

DisableMotionDetection(s) ==
    /\ s \in DOMAIN entities
    /\ \E r \in VendorOutcomes :
        lastCall' = Called("disable_motion_detection", s, << >>,
                           disable_motion_detection(s, r))
    /\ UNCHANGED <<cfg, data, seen, inflight, lastRefresh, setupDone, entities,
                   discovered>>

(* The STOP call is made, and so has an outcome, only when START returned. *)
PerformPtz(s) ==
    /\ s \in DOMAIN entities
    /\ \E d \in Directions, sp \in Speeds, r1 \in VendorOutcomes :
        \E r2 \in (IF r1 = "ok" THEN VendorOutcomes ELSE {"ok"}) :
            lastCall' = Called("perform_ptz", s, <<d, sp>>,
                               perform_ptz(s, d, sp, r1, r2))
    /\ UNCHANGED <<cfg, data, seen, inflight, lastRefresh, setupDone, entities,
                   discovered>>

PerformSoundAlarm(s) ==
    /\ s \in DOMAIN entities
    /\ \E en \in Enables, r \in VendorOutcomes :
        lastCall' = Called("perform_sound_alarm", s, <<en>>,
                           perform_sound_alarm(s, en, r))
    /\ UNCHANGED <<cfg, data, seen, inflight, lastRefresh, setupDone, entities,
                   discovered>>

PerformWakeDevice(s) ==
    /\ s \in DOMAIN entities
    /\ \E r \in VendorOutcomes :
        lastCall' = Called("perform_wake_device", s, << >>,
                           perform_wake_device(s, r))
    /\ UNCHANGED <<cfg, data, seen, inflight, lastRefresh, setupDone, entities,
                   discovered>>

PerformAlarmSound(s) ==
    /\ s \in DOMAIN entities
    /\ \E lv \in Levels, r \in VendorOutcomes :
        lastCall' = Called("perform_alarm_sound", s, <<lv>>,
                           perform_alarm_sound(s, lv, r))
    /\ UNCHANGED <<cfg, data, seen, inflight, lastRefresh, setupDone, entities,
                   discovered>>

PerformSetAlarmDetectionSensibility(s) ==
    /\ s \in DOMAIN entities
    /\ \E lv \in Levels, ty \in Levels, r \in VendorOutcomes :
        lastCall' = Called("perform_set_alarm_detection_sensibility", s, <<lv, ty>>,
                           perform_set_alarm_detection_sensibility(s, lv, ty, r))
    /\ UNCHANGED <<cfg, data, seen, inflight, lastRefresh, setupDone, entities,
                   discovered>>

(* The specification of the action methods: platform setup, then any       *)
(* action on any entity, each vendor call returning or raising.            *)
NextAction ==
    \/ Setup
    \/ \E s \in Serials : EnableMotionDetection(s)
    \/ \E s \in Serials : DisableMotionDetection(s)
    \/ \E s \in Serials : PerformPtz(s)
    \/ \E s \in Serials : PerformSoundAlarm(s)
    \/ \E s \in Serials : PerformWakeDevice(s)
    \/ \E s \in Serials : PerformAlarmSound(s)
    \/ \E s \in Serials : PerformSetAlarmDetectionSensibility(s)

(* The action methods read nothing of the snapshot but the entity's        *)
(* serial, so the snapshot platform setup finds holds one address and port *)
(* here.                                                                   *)
InitAction ==
    /\ Init
    /\ \A s \in DOMAIN data :
        data[s].local_ip = "10.0.0.5" /\ data[s].local_rtsp_port = 0

SpecAction == InitAction /\ [][NextAction]_vars

---------------------------------------------------------------------------
(* The properties *)

AuthErrors == {"EzvizAuthTokenExpired", "EzvizAuthVerificationCode"}
TransientErrors == {"InvalidURL", "HTTPError", "PyEzvizError"}

(* C1: a finished refresh made one load_cameras call; what leaves it is    *)
(* decided by what the load raised: an auth error leaves as                *)
(* ConfigEntryAuthFailed, an invalid URL, HTTP or generic vendor error as  *)
(* UpdateFailed with the vendor's message, both with the vendor exception  *)
(* as cause; a load that returns is returned; and no exception of a vendor *)
(* class leaves a refresh.                                                 *)
C1_RefreshOutcome ==
    LET r == lastRefresh.result
        e == lastRefresh.out.exc
    IN  r # "none" =>
          /\ lastRefresh.loads = 1
          /\ e.type \notin VendorClasses
          /\ r = "ok" => e = NoExc /\ lastRefresh.out.ret # None
          /\ r \in AuthErrors => e.type = "ConfigEntryAuthFailed" /\ e.cause = r
          /\ r \in TransientErrors =>
                /\ e.type = "UpdateFailed"
                /\ e.cause = r
                /\ e.msg = "Invalid response from API: " \o VendorMsg(r)

C1_Witness ==
    /\ lastRefresh.result = "EzvizAuthVerificationCode"
    /\ lastRefresh.out.exc.type = "ConfigEntryAuthFailed"
    /\ setupDone

(* C2: a load that does not finish within api_timeout leaves the refresh   *)
(* as UpdateFailed, as a transient vendor error does.                      *)
C2_TimeoutIsUpdateFailed ==
    lastRefresh.result = "timeout" => lastRefresh.out.exc.type = "UpdateFailed"

ExpectedPort(n) == IF n = 0 THEN "554" ELSE IntToStr(n)

(* C3: for an entity with a password, whatever polls came before, a stream *)
(* request gives the URL built from the entity's entry of the published    *)
(* snapshot: its local_ip, and its local_rtsp_port or 554 when that is 0.  *)
C3_StreamFromLatestSnapshot ==
    \A s \in DOMAIN entities \cap DOMAIN data :
        entities[s].password # None =>
            stream_source(entities[s], s, data).ret
              = Some("rtsp://" \o entities[s].username \o ":"
                        \o entities[s].password[1] \o "@" \o data[s].local_ip
                        \o ":" \o ExpectedPort(data[s].local_rtsp_port)
                        \o entities[s].ffmpeg_arguments)

ActionOps ==
    {"enable_motion_detection", "disable_motion_detection", "perform_ptz",
     "perform_sound_alarm", "perform_wake_device", "perform_alarm_sound",
     "perform_set_alarm_detection_sensibility"}

ActionMessage(op) ==
    CASE op = "enable_motion_detection" -> "Error enabling motion detection"
      [] op = "disable_motion_detection" -> "Error disabling motion detection"
      [] op = "perform_ptz" -> "Cannot perform PTZ"
      [] op = "perform_sound_alarm" -> "Cannot sound alarm"
      [] op = "perform_wake_device" -> "Cannot wake device"
      [] op = "perform_alarm_sound" ->
            "Cannot set alarm sound level for on movement detected"
      [] op = "perform_set_alarm_detection_sensibility" ->
            "Cannot set detection sensitivity level"

(* C4: when a vendor call of an action method raises, whatever the kind,   *)
(* the exception that leaves the method is the method's own failure with   *)
(* the vendor exception as its cause.                                      *)
C4_ActionWrapsVendorError ==
    lastCall.op \in ActionOps =>
        LET r == lastCall.calls[Len(lastCall.calls)].outcome IN
        r # "ok" =>
            /\ lastCall.exc.msg = ActionMessage(lastCall.op)
            /\ lastCall.exc.cause = r

ExpectedDirection(d) ==
    CASE d = DIR_UP -> "UP" [] d = DIR_DOWN -> "DOWN" [] d = DIR_LEFT -> "LEFT"
      [] d = DIR_RIGHT -> "RIGHT"

PtzCall(c, d, serial, command, speed) ==
    c.method = "ptz_control" /\ c.args = <<ExpectedDirection(d), serial, command, speed>>

(* C5 as claimed: a PTZ action makes two vendor calls, ptz_control START   *)
(* then ptz_control STOP, for the entity's serial, with the speed given    *)
(* and the direction in upper case.                                        *)
C5_PtzStartThenStop ==
    lastCall.op = "perform_ptz" =>
        /\ Len(lastCall.calls) = 2
        /\ PtzCall(lastCall.calls[1], lastCall.args[1], lastCall.serial, "START",
                   lastCall.args[2])
        /\ PtzCall(lastCall.calls[2], lastCall.args[1], lastCall.serial, "STOP",
                   lastCall.args[2])

(* C5 as amended: a PTZ action first calls ptz_control START for the       *)
(* entity's serial with the speed given and the direction in upper case;   *)
(* when START returns it makes one more call, the same with STOP, and when *)
(* START raises it makes no other call.                                    *)
C5_PtzStartThenStopIfStarted ==
    lastCall.op = "perform_ptz" =>
        /\ Len(lastCall.calls) >= 1
        /\ PtzCall(lastCall.calls[1], lastCall.args[1], lastCall.serial, "START",
                   lastCall.args[2])
        /\ IF lastCall.calls[1].outcome = "ok"
           THEN /\ Len(lastCall.calls) = 2
                /\ PtzCall(lastCall.calls[2], lastCall.args[1], lastCall.serial,
                           "STOP", lastCall.args[2])
           ELSE Len(lastCall.calls) = 1

C5_Witness ==
    /\ lastCall.op = "perform_ptz"
    /\ lastCall.args = <<DIR_UP, MaxSpeed>>
    /\ Len(lastCall.calls) = 2
    /\ lastCall.calls[2].outcome = "HTTPError"

Configured == {s \in Serials : camera_rtsp_entry(cfg, s) # None}

(* C8 as claimed: once the platform is set up, the serials that have an    *)
(* entity are those that were in a published snapshot or have a            *)
(* configuration entry.                                                    *)
C8_EntityIffSeenOrConfigured ==
    setupDone => DOMAIN entities = seen \cup Configured

(* C8 as amended: there is no entity before platform setup; setup makes    *)
(* one for each serial of the snapshot published then, configured or not,  *)
(* and for no other; and no later step adds or removes an entity.          *)
C8_EntitiesFixedAtSetup ==
    /\ DOMAIN entities = {}
    /\ [][IF ~setupDone /\ setupDone'
          THEN DOMAIN entities' = DOMAIN data
          ELSE DOMAIN entities' = DOMAIN entities]_vars

C8_Witness ==
    /\ setupDone
    /\ DOMAIN data \ DOMAIN entities # {}
    /\ DOMAIN entities \ DOMAIN data # {}
    /\ Configured \ DOMAIN entities # {}

(* C9: an entity without a password never holds a stream URL, and a stream *)
(* request on it returns None and raises nothing, whatever the snapshot    *)
(* holds; every camera a discovery flow was started for at setup has such  *)
(* an entity.                                                              *)
C9_NoPasswordNoStream ==
    /\ \A s \in DOMAIN entities :
        entities[s].password = None =>
            /\ entities[s].rtsp_stream = ""
            /\ lastCall.op = "stream_source" /\ lastCall.serial = s =>
                    lastCall.ret = None /\ lastCall.exc = NoExc
    /\ \A s \in discovered : s \in DOMAIN entities /\ entities[s].password = None

C9_Witness ==
    /\ lastCall.op = "stream_source"
    /\ lastCall.serial \in discovered
    /\ lastCall.serial \notin DOMAIN data
    /\ lastCall.ret = None

(* C10: for an entity whose serial is in the snapshot, supported_features  *)
(* reports stream support exactly when stream_source returns a URL.        *)
C10_FeatureIffStream ==
    \A s \in DOMAIN entities \cap DOMAIN data :
        (supported_features(entities[s]) = SUPPORT_STREAM)
            <=> (stream_source(entities[s], s, data).ret # None)

====
